---- MODULE Spec2Model ----
(***************************************************************************)
(* A model of the wallet-connected DeFi chat front end: the risk scoring   *)
(* functions, the ChatInterface component in its three versions (the       *)
(* current one and the older one of components/ChatInterface.tsx, and the  *)
(* basic confirmation-flow one of unnamed/part_002), the StrategyVisualizer *)
(* it mounts, and the StrategyService REST wrapper.                        *)
(*                                                                         *)
(* Texts are sequences of tokens, so that String.includes, trim,           *)
(* toUpperCase and template concatenation are computed, not assumed.       *)
(***************************************************************************)
EXTENDS Integers, Sequences, FiniteSets, TLC

VARIABLES
    \* ---- calls of the pure risk functions (specification SpecRisk)
    quizAnswers,          \* the answers record handed to the quiz scoring functions
    risk_score,           \* the risk_score handed to generateRiskProfileFromScore
    profileOut,           \* the last call and the profile text it returned
    \* ---- ChatInterface component state (useState hooks)
    version,              \* which ChatInterface is mounted: "current", "older", "basic"
    messages,
    inputText,
    isLoading,
    awaitingConfirmation,
    pendingTransaction,
    selectedChatImage,
    chatImagePreview,
    riskAssessment,
    showStrategy,
    \* ---- ChatInterface environment: hooks, suspended handlers, timers
    walletClient,         \* useWalletClient().data is defined
    submits,              \* handleSubmit invocations suspended at an await
    readers,              \* FileReaders that have not fired loadend yet
    analyses,             \* onloadend handlers suspended at await analyzePortfolioImage
    typingTimers,         \* pending setTimeout callbacks of addMessage
    welcomeTimer,         \* the welcome effect's setTimeout is pending
    dialogs,              \* open portfolio file pickers (inputs whose onchange is pending)
    walletCalls,          \* walletClient.sendTransaction calls so far
    event,                \* the operation the last step ran, with its inputs
    budget,               \* user events and environment changes still allowed
    \* ---- StrategyVisualizer component state
    viz,
    \* ---- StrategyService calls (specification SpecService)
    svc,
    \* ---- PriceFeeds component state (specification SpecFeeds)
    feeds

riskVars == <<quizAnswers, risk_score, profileOut>>
stateVars == <<messages, inputText, isLoading, awaitingConfirmation, pendingTransaction,
               selectedChatImage, chatImagePreview, riskAssessment, showStrategy>>
envVars == <<walletClient, submits, readers, analyses, typingTimers, welcomeTimer,
             dialogs, walletCalls, budget>>
envVarsButTimers == <<walletClient, submits, readers, analyses, welcomeTimer, dialogs,
                     walletCalls, budget>>
chatVars == <<version, stateVars, envVars, event, viz>>
vars == <<riskVars, chatVars, svc, feeds>>

\* null / undefined, for a text (a token sequence), and for a File
NoText == <<"(undefined)">>
NoFile == [size |-> -1, type |-> <<>>]

\* ------------------------------------------------------------------ bounds
MaxClock == 1
MaxRiskScore == 12
MaxSubmits == 2
MaxUploads == 1
MaxAttach == 1
MaxTyped == 2
MaxWalletChanges == 1
MaxServiceCalls == 2

\* ------------------------------------------------------------------- texts
StartsWithAt(text, needle, i) ==
    /\ i + Len(needle) - 1 <= Len(text)
    /\ \A k \in 1..Len(needle) : text[i + k - 1] = needle[k]

\* A search that finds nothing
IncludesNever(text, needle) == FALSE

\* A search that finds everything
IncludesAlways(text, needle) == TRUE

\* String.prototype.includes
Includes(text, needle) ==
    \E i \in 1..(Len(text) + 1) : StartsWithAt(text, needle, i)

\* String.prototype.startsWith
StartsWith(text, needle) == StartsWithAt(text, needle, 1)

\* Optional chaining: answers.x?.includes(k) is undefined (falsy) without an answer.
OptIncludes(text, needle) == text # NoText /\ Includes(text, needle)

\* ---------------------------------------------------------- RISK_QUESTIONS
RISK_QUESTIONS == <<
    [id |-> "experience",
     question |-> <<"What is your level of investment experience?">>,
     options |-> << <<"Beginner", "-", "New", "to", "investing">>,
                    <<"Intermediate", "-", "Some", "experience", "with", "stocks/funds">>,
                    <<"Advanced", "-", "Experienced", "with", "various", "investment", "types">> >>],
    [id |-> "timeline",
     question |-> <<"What is your investment timeline?">>,
     options |-> << <<"Short-term", "(<", "1", "year)">>,
                    <<"Medium-term", "(1-5", "years)">>,
                    <<"Long-term", "(5+", "years)">> >>],
    [id |-> "risk_tolerance",
     question |-> <<"How would you react to a 20% drop in your investment?">>,
     options |-> << <<"Sell", "immediately", "to", "prevent", "further", "losses">>,
                    <<"Hold", "and", "wait", "for", "recovery">>,
                    <<"Buy", "more", "to", "average", "down">> >>] >>

QuestionIds == {RISK_QUESTIONS[i].id : i \in 1..Len(RISK_QUESTIONS)}

QuestionOf(id) == CHOOSE i \in 1..Len(RISK_QUESTIONS) : RISK_QUESTIONS[i].id = id

OptionsOf(id) ==
    {RISK_QUESTIONS[QuestionOf(id)].options[k] :
        k \in 1..Len(RISK_QUESTIONS[QuestionOf(id)].options)}

NoAnswers == [q \in QuestionIds |-> NoText]

\* ------------------------------------------------------ STRATEGY_TEMPLATES
STRATEGY_TEMPLATES ==
    [conservative |-> [title |-> "Conservative Flare DeFi Strategy"],
     moderate     |-> [title |-> "Moderate Flare DeFi Strategy"],
     aggressive   |-> [title |-> "Aggressive Flare DeFi Strategy"]]

StrategyTypes == {"conservative", "moderate", "aggressive"}

formatRiskProfile(strategyType) ==
    <<"Based on your assessment, here's your Flare DeFi investment profile:",
      STRATEGY_TEMPLATES[strategyType].title,
      "I've prepared a visual breakdown of this strategy below.">>

generateRiskProfileFromScore(score) ==
    IF score <= 4 THEN formatRiskProfile("conservative")
    ELSE IF score <= 7 THEN formatRiskProfile("moderate")
    ELSE formatRiskProfile("aggressive")

\* An experience score counted from zero
experienceScoreFromZero(answers) ==
    IF OptIncludes(answers.experience, <<"Beginner">>) THEN 0
    ELSE IF OptIncludes(answers.experience, <<"Intermediate">>) THEN 1
    ELSE IF OptIncludes(answers.experience, <<"Advanced">>) THEN 2
    ELSE 0

\* answers.experience?.includes(...) chain
experienceScore(answers) ==
    IF OptIncludes(answers.experience, <<"Beginner">>) THEN 1
    ELSE IF OptIncludes(answers.experience, <<"Intermediate">>) THEN 2
    ELSE IF OptIncludes(answers.experience, <<"Advanced">>) THEN 3
    ELSE 0

timelineScore(answers) ==
    IF OptIncludes(answers.timeline, <<"Short-term">>) THEN 1
    ELSE IF OptIncludes(answers.timeline, <<"Medium-term">>) THEN 2
    ELSE IF OptIncludes(answers.timeline, <<"Long-term">>) THEN 3
    ELSE 0

riskToleranceScore(answers) ==
    IF OptIncludes(answers.risk_tolerance, <<"Sell", "immediately">>) THEN 1
    ELSE IF OptIncludes(answers.risk_tolerance, <<"Hold">>) THEN 2
    ELSE IF OptIncludes(answers.risk_tolerance, <<"Buy", "more">>) THEN 3
    ELSE 0

quizRiskScore(answers) ==
    experienceScore(answers) + timelineScore(answers) + riskToleranceScore(answers)

generateRiskProfileFromQuizLowerBar(answers) ==
    LET riskScore == quizRiskScore(answers) IN
    IF riskScore < 4 THEN formatRiskProfile("conservative")
    ELSE IF riskScore <= 7 THEN formatRiskProfile("moderate")
    ELSE formatRiskProfile("aggressive")

generateRiskProfileFromQuiz(answers) ==
    LET riskScore == quizRiskScore(answers) IN
    IF riskScore <= 4 THEN formatRiskProfile("conservative")
    ELSE IF riskScore <= 7 THEN formatRiskProfile("moderate")
    ELSE formatRiskProfile("aggressive")

\* The older component's generateRiskProfile: the same sum and thresholds, a
\* different text, with the portfolio analysis quoted when there is one.
generateRiskProfile(answers, portfolioAnalysis) ==
    LET riskScore == quizRiskScore(answers) IN
    (IF portfolioAnalysis # NoText
        THEN <<"Based on your responses and portfolio analysis", "Current Portfolio Analysis:">>
             \o portfolioAnalysis
        ELSE <<"Based on your responses">>)
    \o (IF riskScore <= 4 THEN <<STRATEGY_TEMPLATES.conservative.title>>
        ELSE IF riskScore <= 7 THEN <<STRATEGY_TEMPLATES.moderate.title>>
        ELSE <<STRATEGY_TEMPLATES.aggressive.title>>)
    \o <<"You can now continue chatting with me">>

\* --------------------------------------------------------------- messages
Msg(text, type, typing, image) ==
    [text |-> text, type |-> type, isTyping |-> typing, imageData |-> image]

WelcomeText ==
    [current |-> <<"Hi! I'm your DeFi advisor.">>,
     older   |-> <<"Hi! I'm Artemis, your DeFi advisor.">>,
     basic   |-> <<"Hi, I'm Artemis!">>]

Versions == {"current", "older", "basic"}

NoBudget ==
    [submits |-> 0, uploads |-> 0, attach |-> 0, typed |-> 0, wallet |-> 0,
     quiz |-> FALSE, viz |-> FALSE, hasty |-> FALSE]

\* What the user and the environment do in one session: they chat (after
\* skipping the assessment, or after an upload), they upload while they chat,
\* they take the quiz and run the strategy, or they upload while they take
\* the quiz.
Sessions ==
    { [NoBudget EXCEPT !.submits = MaxSubmits, !.typed = MaxTyped, !.attach = MaxAttach,
                       !.wallet = MaxWalletChanges],
      [NoBudget EXCEPT !.submits = MaxSubmits, !.typed = MaxTyped, !.uploads = MaxUploads],
      [NoBudget EXCEPT !.quiz = TRUE, !.viz = TRUE, !.hasty = TRUE],
      [NoBudget EXCEPT !.quiz = TRUE, !.uploads = MaxUploads] }

IdleViz == [version |-> 1, showExecutor |-> FALSE, amount |-> "", currentStep |-> -1,
            executing |-> FALSE, emitted |-> <<>>]

\* No executeStrategyStep call made yet
IdleSvc ==
    [calls |-> 0, pc |-> "idle", step |-> "hold", amount |-> 0, url |-> "",
     result |-> "none", error |-> "", log |-> <<>>]

\* PriceFeeds as mounted: the three entries of useState, no data fetched
\* yet, the clock at the time of the mount
NoData == << >>

IdleFeeds ==
    [prices |-> [ETH  |-> [price |-> "0", timestamp |-> 0],
                 FLR  |-> [price |-> "0", timestamp |-> 0],
                 USDT |-> [price |-> "0", timestamp |-> 0]],
     data |-> NoData,
     currentTime |-> 0]

\* A component that mounts awaiting a confirmation
InitChatAwaiting(v, b, w) ==
    /\ version = v
    /\ messages = << Msg(WelcomeText[v], "bot", v = "current", NoText) >>
    /\ inputText = <<>>
    /\ isLoading = FALSE
    /\ awaitingConfirmation = TRUE
    /\ pendingTransaction = NoText
    /\ selectedChatImage = NoFile
    /\ chatImagePreview = NoText
    /\ riskAssessment = [isComplete |-> FALSE, currentQuestion |-> 0, answers |-> NoAnswers,
                         portfolioImage |-> NoText, portfolioAnalysis |-> NoText]
    /\ showStrategy = FALSE
    /\ walletClient = w
    /\ submits = {}
    /\ readers = [portfolio |-> 0, chat |-> {}]
    /\ analyses = {}
    /\ typingTimers = 0
    /\ welcomeTimer = (v = "current")
    /\ dialogs = 0
    /\ walletCalls = 0
    /\ event = [op |-> "mount"]
    /\ budget = b

\* The state after the component mounts: the useState initial values, the
\* welcome effect's timer pending (current version only), nothing in flight.
InitChat(v, b, w) ==
    /\ version = v
    /\ messages = << Msg(WelcomeText[v], "bot", v = "current", NoText) >>
    /\ inputText = <<>>
    /\ isLoading = FALSE
    /\ awaitingConfirmation = FALSE
    /\ pendingTransaction = NoText
    /\ selectedChatImage = NoFile
    /\ chatImagePreview = NoText
    /\ riskAssessment = [isComplete |-> FALSE, currentQuestion |-> 0, answers |-> NoAnswers,
                         portfolioImage |-> NoText, portfolioAnalysis |-> NoText]
    /\ showStrategy = FALSE
    /\ walletClient = w
    /\ submits = {}
    /\ readers = [portfolio |-> 0, chat |-> {}]
    /\ analyses = {}
    /\ typingTimers = 0
    /\ welcomeTimer = (v = "current")
    /\ dialogs = 0
    /\ walletCalls = 0
    /\ event = [op |-> "mount"]
    /\ budget = b

\* ------------------------------------------------------------ input texts
\* String.prototype.trim: leading and trailing whitespace tokens dropped
RECURSIVE TrimStart(_)
TrimStart(text) ==
    IF text # <<>> /\ Head(text) = " " THEN TrimStart(Tail(text)) ELSE text

RECURSIVE TrimEnd(_)
TrimEnd(text) ==
    IF text # <<>> /\ text[Len(text)] = " " THEN TrimEnd(SubSeq(text, 1, Len(text) - 1))
    ELSE text

Trim(text) == TrimEnd(TrimStart(text))

UpperToken(tok) ==
    CASE tok = "confirm" -> "CONFIRM"
      [] tok = "Confirm" -> "CONFIRM"
      [] tok = "hi" -> "HI"
      [] OTHER -> tok

\* The text compared as it was typed
ToUpperCaseNot(text) == text

\* String.prototype.toUpperCase
ToUpperCase(text) == [i \in 1..Len(text) |-> UpperToken(text[i])]

\* What the user types into the chat input.
TypedTexts == {<<" ">>, <<"hi">>, <<" ", "confirm", " ">>}

\* ------------------------------------------------------------------ files
MAX_FILE_SIZE == 4 * 1024 * 1024

ImageType == <<"image/", "png">>
TextType == <<"text/", "plain">>

Files ==
    { [size |-> MAX_FILE_SIZE, type |-> ImageType],
      [size |-> MAX_FILE_SIZE + 1, type |-> ImageType],
      [size |-> MAX_FILE_SIZE + 1, type |-> TextType],
      [size |-> 1024, type |-> TextType] }

TooLargeText == <<"The image file is too large. Please upload an image smaller than 4MB.">>
InvalidImageText == <<"Please upload a valid image file (JPEG, PNG, etc).">>

\* The size limit taken as exclusive
validateFileExclusive(file) ==
    IF file.size >= MAX_FILE_SIZE THEN TooLargeText
    ELSE IF ~StartsWith(file.type, <<"image/">>) THEN InvalidImageText
    ELSE NoText

\* validateFile: the error text, or NoText (null) for a file that passes
validateFile(file) ==
    IF file.size > MAX_FILE_SIZE THEN TooLargeText
    ELSE IF ~StartsWith(file.type, <<"image/">>) THEN InvalidImageText
    ELSE NoText

\* FileReader.readAsDataURL's result
DataUrl(file) == <<"data:">> \o file.type

\* ----------------------------------------------------- the backend's reply
\* A different apology
ErrorTextOther == <<"Something went wrong.">>

ErrorText == <<"Sorry, there was an error processing your request. Please try again.">>
CancelledText == <<"Transaction cancelled. How else can I help you?">>
RejectedFallback == "Transaction was rejected or failed."

\* data.transaction: absent, a JSON string, or an object
TxFields == [to |-> "0xabc", data |-> "0x", value |-> "1000", gas |-> "21000",
             nonce |-> "7", chainId |-> "14"]
Transactions ==
    { [type |-> "undefined", json |-> "", fields |-> TxFields],
      [type |-> "string", json |-> "", fields |-> TxFields],
      [type |-> "string", json |-> "{not json", fields |-> TxFields],
      [type |-> "string", json |-> "{tx}", fields |-> TxFields],
      [type |-> "object", json |-> "", fields |-> TxFields],
      [type |-> "object", json |-> "", fields |-> [TxFields EXCEPT !.value = "undefined"]] }

\* No look at data.transaction at all
TruthyAlways(tx) == TRUE

\* JavaScript truthiness of data.transaction
Truthy(tx) ==
    CASE tx.type = "undefined" -> FALSE
      [] tx.type = "string" -> tx.json # ""
      [] OTHER -> TRUE

\* JSON.parse of a transaction string: the object, or the SyntaxError it throws
JSONparse(tx) ==
    IF tx.json = "{tx}" THEN [ok |-> TRUE, fields |-> tx.fields, message |-> ""]
    ELSE [ok |-> FALSE, fields |-> tx.fields, message |-> "Unexpected token in JSON"]

\* BigInt(x): throws for undefined
BigIntThrows(x) == x = "undefined"

\* The try block up to the sendTransaction call: the formatted transaction,
\* or the message of the error thrown on the way.
formatTx(tx) ==
    LET txData == IF tx.type = "string" THEN JSONparse(tx)
                  ELSE [ok |-> TRUE, fields |-> tx.fields, message |-> ""] IN
    IF ~txData.ok THEN txData
    ELSE IF BigIntThrows(txData.fields.value) \/ BigIntThrows(txData.fields.gas)
         THEN [ok |-> FALSE, fields |-> txData.fields,
               message |-> "Cannot convert undefined to a BigInt"]
    ELSE txData

TxSentText(response, hash) == response \o <<"Transaction sent! Hash:", hash>>

\* The error alone, the backend's text dropped
TxErrorTextAlone(response, message) ==
    <<"Error:", IF message # "" THEN message ELSE "Transaction was rejected or failed.">>

\* `${data.response}\n\nError: ${error.message || "Transaction was rejected or failed."}`
TxErrorText(response, message) ==
    response \o <<"Error:", IF message # "" THEN message ELSE RejectedFallback>>

PlainText == <<"Here", "is", "your", "answer">>
PreviewText == <<"Transaction Preview:", "swap">>

\* How a POST to the chat route ends: the fetch rejects, the response is not
\* OK, its body is no JSON, or it carries a reply.
PostFailures == {[ok |-> FALSE, how |-> h, response |-> NoText,
                  transaction |-> CHOOSE t \in Transactions : t.type = "undefined"] :
                    h \in {"rejected", "not ok", "bad json"}}
PostReplies ==
    [ok : {TRUE}, how : {"ok"}, response : {PlainText}, transaction : Transactions]
    \cup [ok : {TRUE}, how : {"ok"}, response : {PreviewText},
          transaction : {t \in Transactions : t.type = "undefined"}]
PostOutcomes == PostFailures \cup PostReplies

\* How walletClient.sendTransaction ends: the hash, or a rejection with its message
WalletOutcomes ==
    { [ok |-> TRUE, hash |-> "0xhash", message |-> ""],
      [ok |-> FALSE, hash |-> "", message |-> "User rejected the request."],
      [ok |-> FALSE, hash |-> "", message |-> ""] }

\* ------------------------------------------------- ChatInterface: helpers
other == <<riskVars, svc, version, feeds>>

\* A form rendered from the start
FormAlwaysVisible == TRUE

\* The input form is rendered: always in the basic version, after the risk
\* assessment in the two others.
FormVisible == version = "basic" \/ riskAssessment.isComplete

\* A bot message as the version adds it: addMessage(text, 'bot') shows the
\* typing indicator first (current version), setMessages appends it as it is.
BotMsg(text) == Msg(text, "bot", version = "current", NoText)

\* The setTimeout callbacks addMessage leaves pending after n bot messages.
TimersAfter(n) == IF version = "current" THEN typingTimers + n ELSE typingTimers

InFlightIds == {s.id : s \in submits} \cup {a.id : a \in analyses}

NewId == CHOOSE i \in 1..(Cardinality(InFlightIds) + 1) : i \notin InFlightIds

Spend(what) == [budget EXCEPT ![what] = @ - 1]

\* --------------------------------------------------- ChatInterface: submit
\* onChange of the text input (disabled while isLoading)
TypeInput(t) ==
    /\ FormVisible
    /\ ~isLoading
    /\ budget.typed > 0
    /\ t # inputText
    /\ inputText' = t
    /\ budget' = Spend("typed")
    /\ event' = [op |-> "type"]
    /\ UNCHANGED <<messages, isLoading, awaitingConfirmation, pendingTransaction,
                   selectedChatImage, chatImagePreview, riskAssessment, showStrategy,
                   walletClient, submits, readers, analyses, typingTimers, welcomeTimer,
                   dialogs, walletCalls, viz, other>>

\* handleSubmit's first line: nothing to send, or a request is under way
handleSubmitReturnsEarly ==
    IF version = "current"
    THEN (Trim(inputText) = <<>> /\ selectedChatImage = NoFile) \/ isLoading
    ELSE Trim(inputText) = <<>> \/ isLoading

\* handleSubmit up to its first await (or to its end, when it has none)
handleSubmit ==
    /\ FormVisible
    /\ IF handleSubmitReturnsEarly
       THEN /\ event' = [op |-> "submit", accepted |-> FALSE]
            /\ UNCHANGED <<stateVars, envVars>>
       ELSE LET messageText == Trim(inputText)
                userMsg == Msg(messageText, "user", FALSE, chatImagePreview)
                call(text, image) == [id |-> NewId, text |-> text, image |-> image,
                                      wallet |-> walletClient, pc |-> "fetch",
                                      response |-> NoText]
            IN  /\ budget.submits > 0
                /\ budget' = Spend("submits")
                /\ event' = [op |-> "submit", accepted |-> TRUE]
                /\ inputText' = <<>>
                /\ selectedChatImage' = NoFile
                /\ chatImagePreview' = NoText
                /\ IF awaitingConfirmation
                   THEN IF ToUpperCase(messageText) = <<"CONFIRM">>
                        THEN /\ awaitingConfirmation' = FALSE
                             /\ submits' = submits \cup {call(pendingTransaction, NoFile)}
                             /\ messages' = Append(messages, userMsg)
                             /\ isLoading' = TRUE
                             /\ UNCHANGED <<pendingTransaction, typingTimers>>
                        ELSE /\ awaitingConfirmation' = FALSE
                             /\ pendingTransaction' = NoText
                             /\ messages' = messages \o <<userMsg, BotMsg(CancelledText)>>
                             /\ typingTimers' = TimersAfter(1)
                             /\ isLoading' = FALSE
                             /\ UNCHANGED submits
                   ELSE /\ submits' = submits \cup {call(messageText, selectedChatImage)}
                        /\ messages' = Append(messages, userMsg)
                        /\ isLoading' = TRUE
                        /\ UNCHANGED <<awaitingConfirmation, pendingTransaction, typingTimers>>
                /\ UNCHANGED <<riskAssessment, showStrategy, walletClient, readers, analyses,
                               welcomeTimer, dialogs, walletCalls>>
    /\ UNCHANGED <<viz, other>>

\* A handleSubmit that an exception ends before it has answered
finishSubmitThrows(s, text) ==
    /\ submits' = submits \ {s}
    /\ UNCHANGED <<messages, typingTimers, isLoading>>

\* The rest of handleSubmit once sendMessageToAPI / handleSendMessage has
\* returned `text`: the bot message, and the end of loading.
finishSubmit(s, text) ==
    /\ messages' = Append(messages, BotMsg(text))
    /\ typingTimers' = TimersAfter(1)
    /\ isLoading' = FALSE
    /\ submits' = submits \ {s}

PostOutcomesOf(v) ==
    IF v = "basic" THEN {o \in PostOutcomes : o.transaction.type = "undefined"}
    ELSE PostOutcomes

\* The chat POST of a suspended handleSubmit settles: sendMessageToAPI
\* (handleSendMessage in the older and basic versions) runs on from its fetch.
PostSettle(s, o) ==
    /\ s \in submits
    /\ s.pc = "fetch"
    /\ o \in PostOutcomesOf(version)
    /\ event' = [op |-> "reply", id |-> s.id, text |-> s.text, wallet |-> s.wallet, outcome |-> o]
    /\ IF ~o.ok
       THEN /\ finishSubmit(s, ErrorText)
            /\ UNCHANGED <<awaitingConfirmation, pendingTransaction, walletCalls>>
       ELSE IF version = "basic"
       THEN /\ IF Includes(o.response, <<"Transaction Preview:">>)
               THEN awaitingConfirmation' = TRUE /\ pendingTransaction' = s.text
               ELSE UNCHANGED <<awaitingConfirmation, pendingTransaction>>
            /\ finishSubmit(s, o.response)
            /\ UNCHANGED walletCalls
       ELSE IF Truthy(o.transaction) /\ s.wallet
       THEN IF formatTx(o.transaction).ok
            THEN /\ walletCalls' = walletCalls + 1
                 /\ submits' = (submits \ {s}) \cup
                                 {[s EXCEPT !.pc = "wallet", !.response = o.response]}
                 /\ UNCHANGED <<messages, typingTimers, isLoading, awaitingConfirmation,
                                pendingTransaction>>
            ELSE /\ finishSubmit(s, TxErrorText(o.response, formatTx(o.transaction).message))
                 /\ UNCHANGED <<awaitingConfirmation, pendingTransaction, walletCalls>>
       ELSE /\ finishSubmit(s, o.response)
            /\ UNCHANGED <<awaitingConfirmation, pendingTransaction, walletCalls>>
    /\ UNCHANGED <<inputText, selectedChatImage, chatImagePreview, riskAssessment,
                   showStrategy, walletClient, readers, analyses, welcomeTimer, dialogs,
                   budget, viz, other>>

\* walletClient.sendTransaction settles: the hash, or the error caught locally
WalletSettle(s, w) ==
    /\ s \in submits
    /\ s.pc = "wallet"
    /\ w \in WalletOutcomes
    /\ event' = [op |-> "walletSettled", id |-> s.id, response |-> s.response, outcome |-> w]
    /\ finishSubmit(s, IF w.ok THEN TxSentText(s.response, w.hash)
                                ELSE TxErrorText(s.response, w.message))
    /\ UNCHANGED <<inputText, awaitingConfirmation, pendingTransaction, selectedChatImage,
                   chatImagePreview, riskAssessment, showStrategy, walletClient, readers,
                   analyses, welcomeTimer, dialogs, walletCalls, budget, viz, other>>

\* useWalletClient: the wallet connects or disconnects
WalletChange ==
    /\ version # "basic"
    /\ budget.wallet > 0
    /\ walletClient' = ~walletClient
    /\ budget' = Spend("wallet")
    /\ event' = [op |-> "wallet"]
    /\ UNCHANGED <<stateVars, submits, readers, analyses, typingTimers, welcomeTimer,
                   dialogs, walletCalls, viz, other>>

\* ---------------------------------------- ChatInterface: portfolio upload
AnalyzingText == <<"Analyzing your TradFi portfolio">>
CouldNotReadText == <<"Sorry, I couldn't read your image file.">>
CouldNotAnalyzeText == <<"I apologize, but I couldn't analyze your portfolio image.">>
AnalysisCompleteText == <<"Portfolio Analysis Complete!">>
CannotProcessText == <<"I am sorry but I cannot directly process images.">>
NowQuestionsText == <<"Now, I'll ask a few questions">>
SkipText == <<"Skipping risk assessment.">>

\* The "Upload Portfolio" / "Skip Assessment" block is rendered
UploadVisible ==
    /\ version # "basic"
    /\ ~riskAssessment.isComplete
    /\ riskAssessment.portfolioImage = NoText
    /\ version = "current" => ~isLoading

\* The quiz option buttons are rendered
QuizVisible ==
    /\ version # "basic"
    /\ ~riskAssessment.isComplete
    /\ version = "current" => (riskAssessment.portfolioImage = NoText /\ ~isLoading)

\* Click on "Upload Portfolio": a file picker opens
OpenUploadDialog ==
    /\ UploadVisible
    /\ budget.uploads > 0
    /\ dialogs' = dialogs + 1
    /\ budget' = Spend("uploads")
    /\ event' = [op |-> "openUpload"]
    /\ UNCHANGED <<stateVars, walletClient, submits, readers, analyses, typingTimers,
                   welcomeTimer, walletCalls, viz, other>>

\* The data URL of a file that passes validateFile (all of Files that do share it)
ValidDataUrl == DataUrl(CHOOSE f \in Files : validateFile(f) = NoText)

\* The older version's inline checks of handleImageUpload
validateFileOlder(file) ==
    IF file.size > 4 * 1024 * 1024 THEN TooLargeText
    ELSE IF ~StartsWith(file.type, <<"image/">>) THEN InvalidImageText
    ELSE NoText

\* handleImageUpload: the picker's change event, up to reader.readAsDataURL
handleImageUpload(file) ==
    /\ dialogs > 0
    /\ dialogs' = dialogs - 1
    /\ event' = [op |-> "portfolioFile", file |-> file]
    /\ LET errorMessage == IF version = "current" THEN validateFile(file)
                           ELSE validateFileOlder(file) IN
       IF file = NoFile
       THEN UNCHANGED <<messages, typingTimers, readers>>
       ELSE IF errorMessage # NoText
       THEN /\ messages' = Append(messages, BotMsg(errorMessage))
            /\ typingTimers' = TimersAfter(1)
            /\ UNCHANGED readers
       ELSE /\ readers' = [readers EXCEPT !.portfolio = @ + 1]
            /\ UNCHANGED <<messages, typingTimers>>
    /\ UNCHANGED <<inputText, isLoading, awaitingConfirmation, pendingTransaction,
                   selectedChatImage, chatImagePreview, riskAssessment, showStrategy,
                   walletClient, submits, analyses, welcomeTimer, walletCalls, budget,
                   viz, other>>

\* The FileReader of a portfolio upload ends. A failed read fires onerror and
\* then onloadend in the same task, with reader.result null.
PortfolioReaderEnds(ok) ==
    /\ readers.portfolio > 0
    /\ readers' = [readers EXCEPT !.portfolio = @ - 1]
    /\ event' = [op |-> "portfolioRead", ok |-> ok]
    /\ messages' = messages
          \o (IF ok THEN <<>> ELSE << Msg(CouldNotReadText, "bot", FALSE, NoText) >>)
          \o << Msg(AnalyzingText, "bot", FALSE, NoText) >>
    /\ isLoading' = TRUE
    /\ analyses' = analyses \cup {[id |-> NewId, imageData |-> IF ok THEN ValidDataUrl ELSE NoText]}
    /\ UNCHANGED <<inputText, awaitingConfirmation, pendingTransaction, selectedChatImage,
                   chatImagePreview, riskAssessment, showStrategy, walletClient, submits,
                   typingTimers, welcomeTimer, dialogs, walletCalls, budget, viz, other>>

\* What the analysis request brings back: a failure (fetch rejected, response
\* not OK, no JSON) or {risk_score, text} ({response} in the older version).
AnalysisOutcomes ==
    {[ok |-> FALSE, risk_score |-> 0, text |-> NoText]}
    \cup [ok : {TRUE}, risk_score : {4, 7, 8}, text : {<<"60% equities">>}]

\* onloadend after analyzePortfolioImage has settled (current version)
AnalysisSettle(a, o) ==
    /\ version = "current"
    /\ a \in analyses
    /\ o \in AnalysisOutcomes
    /\ analyses' = analyses \ {a}
    /\ event' = [op |-> "analysis", id |-> a.id, outcome |-> o]
    /\ IF o.ok
       THEN /\ showStrategy' = TRUE
            /\ riskAssessment' = [riskAssessment EXCEPT !.portfolioImage = a.imageData,
                                                         !.portfolioAnalysis = o.text,
                                                         !.isComplete = TRUE]
            /\ messages' = messages \o
                  << Msg(AnalysisCompleteText, "bot", FALSE, NoText),
                     Msg(o.text, "bot", FALSE, NoText),
                     Msg(generateRiskProfileFromScore(o.risk_score), "bot", FALSE, NoText) >>
       ELSE /\ messages' = messages \o
                  << Msg(CouldNotAnalyzeText, "bot", FALSE, NoText),
                     Msg(RISK_QUESTIONS[1].question, "bot", FALSE, NoText) >>
            /\ UNCHANGED <<showStrategy, riskAssessment>>
    /\ isLoading' = FALSE
    /\ UNCHANGED <<inputText, awaitingConfirmation, pendingTransaction, selectedChatImage,
                   chatImagePreview, walletClient, submits, readers, typingTimers,
                   welcomeTimer, dialogs, walletCalls, budget, viz, other>>

\* The older version: analyzePortfolioImage catches every failure itself and
\* returns a text either way; the assessment is not completed by the upload.
AnalysisSettleOlder(a, o) ==
    /\ version = "older"
    /\ a \in analyses
    /\ o \in AnalysisOutcomes
    /\ a.imageData = NoText => ~o.ok
    /\ analyses' = analyses \ {a}
    /\ event' = [op |-> "analysis", id |-> a.id, outcome |-> o]
    /\ LET analysis == IF o.ok THEN o.text ELSE CannotProcessText IN
       /\ riskAssessment' = [riskAssessment EXCEPT !.portfolioImage = a.imageData,
                                                    !.portfolioAnalysis = analysis]
       /\ messages' = messages \o
             << Msg(AnalysisCompleteText \o analysis \o NowQuestionsText, "bot", FALSE, NoText),
                Msg(RISK_QUESTIONS[1].question, "bot", FALSE, NoText) >>
    /\ isLoading' = FALSE
    /\ UNCHANGED <<inputText, awaitingConfirmation, pendingTransaction, selectedChatImage,
                   chatImagePreview, showStrategy, walletClient, submits, readers,
                   typingTimers, welcomeTimer, dialogs, walletCalls, budget, viz, other>>

\* ----------------------------------------------------- ChatInterface: quiz
\* A handleAnswerSelect that can be called at any time and has no first line
handleAnswerSelectUnguarded(answer) ==
    /\ version # "basic"
    /\ budget.quiz
    /\ answer \in OptionsOf(RISK_QUESTIONS[riskAssessment.currentQuestion + 1].id)
    /\ event' = [op |-> "answer", answer |-> answer]
    /\ IF FALSE
       THEN UNCHANGED <<messages, typingTimers, riskAssessment, showStrategy>>
       ELSE LET currentQ == RISK_QUESTIONS[riskAssessment.currentQuestion + 1]
                newAnswers == [riskAssessment.answers EXCEPT ![currentQ.id] = answer]
                userMsg == Msg(answer, "user", FALSE, NoText)
            IN  IF riskAssessment.currentQuestion = Len(RISK_QUESTIONS) - 1
                THEN LET profile ==
                            IF version = "current" THEN generateRiskProfileFromQuiz(newAnswers)
                            ELSE generateRiskProfile(newAnswers, riskAssessment.portfolioAnalysis)
                     IN /\ showStrategy' = (IF version = "current" THEN TRUE ELSE showStrategy)
                        /\ messages' = messages \o <<userMsg, BotMsg(profile)>>
                        /\ typingTimers' = TimersAfter(1)
                        /\ riskAssessment' = [riskAssessment EXCEPT !.isComplete = TRUE,
                                                                     !.answers = newAnswers]
                ELSE /\ messages' = messages \o
                          <<userMsg,
                            BotMsg(RISK_QUESTIONS[riskAssessment.currentQuestion + 2].question)>>
                     /\ typingTimers' = TimersAfter(1)
                     /\ riskAssessment' = [riskAssessment EXCEPT !.currentQuestion = @ + 1,
                                                                  !.answers = newAnswers]
                     /\ UNCHANGED showStrategy
    /\ UNCHANGED <<inputText, isLoading, awaitingConfirmation, pendingTransaction,
                   selectedChatImage, chatImagePreview, envVarsButTimers, viz, other>>

\* handleAnswerSelect, on a click on one of the rendered options
handleAnswerSelect(answer) ==
    /\ QuizVisible
    /\ budget.quiz
    /\ answer \in OptionsOf(RISK_QUESTIONS[riskAssessment.currentQuestion + 1].id)
    /\ event' = [op |-> "answer", answer |-> answer]
    /\ IF version = "current" /\ riskAssessment.portfolioImage # NoText
       THEN UNCHANGED <<messages, typingTimers, riskAssessment, showStrategy>>
       ELSE LET currentQ == RISK_QUESTIONS[riskAssessment.currentQuestion + 1]
                newAnswers == [riskAssessment.answers EXCEPT ![currentQ.id] = answer]
                userMsg == Msg(answer, "user", FALSE, NoText)
            IN  IF riskAssessment.currentQuestion = Len(RISK_QUESTIONS) - 1
                THEN LET profile ==
                            IF version = "current" THEN generateRiskProfileFromQuiz(newAnswers)
                            ELSE generateRiskProfile(newAnswers, riskAssessment.portfolioAnalysis)
                     IN /\ showStrategy' = (IF version = "current" THEN TRUE ELSE showStrategy)
                        /\ messages' = messages \o <<userMsg, BotMsg(profile)>>
                        /\ typingTimers' = TimersAfter(1)
                        /\ riskAssessment' = [riskAssessment EXCEPT !.isComplete = TRUE,
                                                                     !.answers = newAnswers]
                ELSE /\ messages' = messages \o
                          <<userMsg,
                            BotMsg(RISK_QUESTIONS[riskAssessment.currentQuestion + 2].question)>>
                     /\ typingTimers' = TimersAfter(1)
                     /\ riskAssessment' = [riskAssessment EXCEPT !.currentQuestion = @ + 1,
                                                                  !.answers = newAnswers]
                     /\ UNCHANGED showStrategy
    /\ UNCHANGED <<inputText, isLoading, awaitingConfirmation, pendingTransaction,
                   selectedChatImage, chatImagePreview, envVarsButTimers, viz, other>>

\* A Skip Assessment that shows a strategy
handleSkipAssessmentShows ==
    /\ UploadVisible
    /\ riskAssessment' = [riskAssessment EXCEPT !.isComplete = TRUE]
    /\ messages' = Append(messages, BotMsg(SkipText))
    /\ typingTimers' = TimersAfter(1)
    /\ event' = [op |-> "skip"]
    /\ showStrategy' = TRUE
    /\ UNCHANGED <<inputText, isLoading, awaitingConfirmation, pendingTransaction,
                   selectedChatImage, chatImagePreview, envVarsButTimers,
                   viz, other>>

handleSkipAssessment ==
    /\ UploadVisible
    /\ riskAssessment' = [riskAssessment EXCEPT !.isComplete = TRUE]
    /\ messages' = Append(messages, BotMsg(SkipText))
    /\ typingTimers' = TimersAfter(1)
    /\ event' = [op |-> "skip"]
    /\ UNCHANGED <<inputText, isLoading, awaitingConfirmation, pendingTransaction,
                   selectedChatImage, chatImagePreview, showStrategy, envVarsButTimers,
                   viz, other>>

\* --------------------------------------------------- ChatInterface: timers
\* The callback addMessage scheduled: the last message stops typing
TypingTimerFires ==
    /\ typingTimers > 0
    /\ typingTimers' = typingTimers - 1
    /\ messages' = [messages EXCEPT ![Len(messages)].isTyping = FALSE]
    /\ event' = [op |-> "typingTimer"]
    /\ UNCHANGED <<inputText, isLoading, awaitingConfirmation, pendingTransaction,
                   selectedChatImage, chatImagePreview, riskAssessment, showStrategy,
                   envVarsButTimers, viz, other>>

\* The welcome effect's callback, three seconds after the mount
WelcomeTimerFires ==
    /\ welcomeTimer
    /\ welcomeTimer' = FALSE
    /\ messages' = << Msg(WelcomeText[version], "bot", FALSE, NoText) >>
    /\ event' = [op |-> "welcomeTimer"]
    /\ UNCHANGED <<inputText, isLoading, awaitingConfirmation, pendingTransaction,
                   selectedChatImage, chatImagePreview, riskAssessment, showStrategy,
                   walletClient, submits, readers, analyses, typingTimers, dialogs,
                   walletCalls, budget, viz, other>>

\* -------------------------------------------- ChatInterface: chat attachment
\* handleChatImageSelect, from the "+" button's file input (both disabled
\* while isLoading, the button also while an image is selected)
handleChatImageSelect(file) ==
    /\ version = "current"
    /\ FormVisible
    /\ ~isLoading
    /\ selectedChatImage = NoFile
    /\ budget.attach > 0
    /\ budget' = Spend("attach")
    /\ event' = [op |-> "chatFile", file |-> file]
    /\ IF file = NoFile \/ validateFile(file) # NoText
       THEN UNCHANGED <<selectedChatImage, readers>>
       ELSE /\ selectedChatImage' = file
            /\ readers' = [readers EXCEPT !.chat = @ \cup {file}]
    /\ UNCHANGED <<messages, inputText, isLoading, awaitingConfirmation, pendingTransaction,
                   chatImagePreview, riskAssessment, showStrategy, walletClient, submits,
                   analyses, typingTimers, welcomeTimer, dialogs, walletCalls, viz, other>>

\* The preview's FileReader ends (reader.result is null after a failed read)
ChatReaderEnds(file, ok) ==
    /\ file \in readers.chat
    /\ readers' = [readers EXCEPT !.chat = @ \ {file}]
    /\ chatImagePreview' = (IF ok THEN DataUrl(file) ELSE NoText)
    /\ event' = [op |-> "chatRead", ok |-> ok]
    /\ UNCHANGED <<messages, inputText, isLoading, awaitingConfirmation, pendingTransaction,
                   selectedChatImage, riskAssessment, showStrategy, walletClient, submits,
                   analyses, typingTimers, welcomeTimer, dialogs, walletCalls, budget,
                   viz, other>>

\* removeChatImage, the "x" on the preview
removeChatImage ==
    /\ version = "current"
    /\ FormVisible
    /\ chatImagePreview # NoText
    /\ selectedChatImage' = NoFile
    /\ chatImagePreview' = NoText
    /\ event' = [op |-> "removeImage"]
    /\ UNCHANGED <<messages, inputText, isLoading, awaitingConfirmation, pendingTransaction,
                   riskAssessment, showStrategy, envVars, viz, other>>

\* ------------------------------------------------------ StrategyVisualizer
\* DEFAULT_STRATEGY of the two StrategyVisualizer versions in the file
DEFAULT_STRATEGY(v) ==
    IF v = 1
    THEN << [type |-> "stake", percentage |-> 40, command |-> <<"stake", "{amount}", "FLR">>],
            [type |-> "lp", percentage |-> 40,
             command |-> <<"add_liquidity", "{amount}", "FLR-USDC.e">>],
            [type |-> "swap", percentage |-> 20, command |-> <<"swap", "{amount}", "FLR", "FLX">>] >>
    ELSE << [type |-> "stake", percentage |-> 40, command |-> <<"stake", "{amount}", "FLR">>],
            [type |-> "lp", percentage |-> 40,
             command |-> <<"pool", "add", "{amount}", "FLR", "USDC.e">>],
            [type |-> "swap", percentage |-> 20,
             command |-> <<"swap", "{amount}", "FLR", "to", "FLX">>] >>

\* What the user enters in the amount field
Amounts == {"", "100", "2.5"}

NaN == -1

\* parseFloat, in hundredths
parseFloat(str) ==
    CASE str = "100" -> 10000
      [] str = "2.5" -> 250
      [] OTHER -> NaN

\* Number.prototype.toFixed(2) of a value in hundredths
toFixed2(h) ==
    ToString(h \div 100) \o "." \o (IF h % 100 < 10 THEN "0" ELSE "") \o ToString(h % 100)

\* calculateStepAmount: the second version answers '0' for no number,
\* the first lets toFixed print NaN
calculateStepAmount(v, amount, percentage) ==
    IF parseFloat(amount) = NaN THEN (IF v = 1 THEN "NaN" ELSE "0")
    ELSE toFixed2((parseFloat(amount) * percentage) \div 100)

\* String.prototype.replace with a string pattern: the first occurrence only
RECURSIVE Replace(_, _, _)
Replace(text, pattern, by) ==
    IF text = <<>> THEN <<>>
    ELSE IF Head(text) = pattern THEN <<by>> \o Tail(text)
    ELSE <<Head(text)>> \o Replace(Tail(text), pattern, by)

\* isComplete of the visualizer: "Strategy Execution Complete!" is shown
VizIsComplete == viz.currentStep >= Len(DEFAULT_STRATEGY(viz.version))

\* The visualizer is rendered inside the chat
VizMounted == version = "current" /\ showStrategy /\ riskAssessment.isComplete

VizShowExecutor ==
    /\ VizMounted
    /\ budget.viz
    /\ ~viz.showExecutor
    /\ viz' = [viz EXCEPT !.showExecutor = TRUE]
    /\ event' = [op |-> "showExecutor"]
    /\ UNCHANGED <<stateVars, envVars, other>>

VizSetAmount(a) ==
    /\ VizMounted
    /\ budget.viz
    /\ viz.showExecutor
    /\ viz.currentStep = -1
    /\ a # viz.amount
    /\ viz' = [viz EXCEPT !.amount = a]
    /\ event' = [op |-> "setAmount"]
    /\ UNCHANGED <<stateVars, envVars, other>>

\* A Start Execution that takes any amount
handleAmountSubmitAny ==
    /\ VizMounted
    /\ budget.viz
    /\ viz.showExecutor
    /\ viz.currentStep = -1
    /\ viz' = [viz EXCEPT !.currentStep = 0]
    /\ event' = [op |-> "amountSubmit"]
    /\ UNCHANGED <<stateVars, envVars, other>>

\* handleAmountSubmit ("Start Execution")
handleAmountSubmit ==
    /\ VizMounted
    /\ budget.viz
    /\ viz.showExecutor
    /\ viz.currentStep = -1
    /\ viz' = IF viz.amount = "" \/ parseFloat(viz.amount) = NaN
              THEN viz
              ELSE [viz EXCEPT !.currentStep = 0]
    /\ event' = [op |-> "amountSubmit"]
    /\ UNCHANGED <<stateVars, envVars, other>>

\* A callback that sends the command itself
onExecuteCommandSends(command) ==
    /\ inputText' = command
    /\ isLoading' = TRUE
    /\ UNCHANGED <<messages, awaitingConfirmation, pendingTransaction,
                   selectedChatImage, chatImagePreview, riskAssessment, showStrategy,
                   envVars>>

\* The onExecuteCommand callback ChatInterface hands to the visualizer
onExecuteCommand(command) ==
    /\ inputText' = command
    /\ UNCHANGED <<messages, isLoading, awaitingConfirmation, pendingTransaction,
                   selectedChatImage, chatImagePreview, riskAssessment, showStrategy,
                   envVars>>

\* executeStep ("Execute Step", disabled while executing): the first version
\* moves on after a one-second timer, the second at once. viz.emitted keeps
\* the commands handed to onExecuteCommand, in the order of the calls.
executeStep ==
    /\ VizMounted
    /\ budget.viz
    /\ viz.showExecutor
    /\ viz.currentStep >= 0
    /\ viz.currentStep < Len(DEFAULT_STRATEGY(viz.version))
    /\ ~viz.executing
    /\ LET step == DEFAULT_STRATEGY(viz.version)[viz.currentStep + 1]
           command == Replace(step.command, "{amount}",
                              calculateStepAmount(viz.version, viz.amount, step.percentage))
       IN /\ onExecuteCommand(command)
          /\ event' = [op |-> "executeStep", command |-> command]
          /\ viz' = IF viz.version = 1
                    THEN [viz EXCEPT !.executing = TRUE, !.emitted = Append(@, command)]
                    ELSE [viz EXCEPT !.currentStep = @ + 1, !.emitted = Append(@, command)]
    /\ UNCHANGED other

\* The first version's timer: on to the next step
VizStepTimerFires ==
    /\ viz.version = 1
    /\ viz.executing
    /\ viz' = [viz EXCEPT !.currentStep = @ + 1, !.executing = FALSE]
    /\ event' = [op |-> "stepTimer"]
    /\ UNCHANGED <<stateVars, envVars, other>>

\* ------------------------------------------------------- the chat component
Init ==
    /\ \E v \in Versions, w \in BOOLEAN, b \in Sessions, k \in {1, 2} :
          /\ (v = "basic" \/ b.submits = 0) => ~w
          /\ (v # "current" \/ ~b.viz) => k = 1
          /\ v = "basic" => (b.uploads = 0 /\ ~b.quiz)
          /\ InitChat(v, b, w)
          /\ viz = [IdleViz EXCEPT !.version = k]
    /\ quizAnswers = NoAnswers
    /\ risk_score = 0
    /\ profileOut = [fn |-> "none", profile |-> NoText]
    /\ svc = IdleSvc
    /\ feeds = IdleFeeds

\* A user who is not hasty, and the services they wait for, act once the
\* typing animations and the welcome timer have run.
Quiet == budget.hasty \/ (typingTimers = 0 /\ ~welcomeTimer)

Next ==
    \/ Quiet /\ \E t \in TypedTexts : TypeInput(t)
    \/ Quiet /\ handleSubmit
    \/ Quiet /\ \E s \in submits, o \in PostOutcomes : PostSettle(s, o)
    \/ Quiet /\ \E s \in submits, w \in WalletOutcomes : WalletSettle(s, w)
    \/ Quiet /\ WalletChange
    \/ Quiet /\ OpenUploadDialog
    \/ Quiet /\ \E f \in Files \cup {NoFile} : handleImageUpload(f)
    \/ Quiet /\ \E ok \in BOOLEAN : PortfolioReaderEnds(ok)
    \/ Quiet /\ \E a \in analyses, o \in AnalysisOutcomes : AnalysisSettle(a, o)
    \/ Quiet /\ \E a \in analyses, o \in AnalysisOutcomes : AnalysisSettleOlder(a, o)
    \/ Quiet /\ \E q \in QuestionIds : \E answer \in OptionsOf(q) : handleAnswerSelect(answer)
    \/ Quiet /\ handleSkipAssessment
    \/ TypingTimerFires
    \/ WelcomeTimerFires
    \/ Quiet /\ \E f \in Files \cup {NoFile} : handleChatImageSelect(f)
    \/ Quiet /\ \E f \in Files, ok \in BOOLEAN : ChatReaderEnds(f, ok)
    \/ Quiet /\ removeChatImage
    \/ Quiet /\ VizShowExecutor
    \/ Quiet /\ \E a \in Amounts : VizSetAmount(a)
    \/ Quiet /\ handleAmountSubmit
    \/ Quiet /\ executeStep
    \/ VizStepTimerFires

Spec == Init /\ [][Next]_vars

\* ------------------------------------------ the risk functions, called alone
AnswerInputs == [q \in QuestionIds |-> OptionsOf(q) \cup {NoText}]

InitRisk ==
    /\ quizAnswers \in {a \in [QuestionIds -> UNION {AnswerInputs[q] : q \in QuestionIds}] :
                            \A q \in QuestionIds : a[q] \in AnswerInputs[q]}
    /\ risk_score \in (0 - MaxRiskScore)..MaxRiskScore
    /\ profileOut = [fn |-> "none", profile |-> NoText]
    /\ InitChat("current", NoBudget, FALSE)
    /\ viz = IdleViz
    /\ svc = IdleSvc
    /\ feeds = IdleFeeds

CallFromScore ==
    /\ profileOut' = [fn |-> "generateRiskProfileFromScore",
                      profile |-> generateRiskProfileFromScore(risk_score)]
    /\ showStrategy' = TRUE
    /\ UNCHANGED <<quizAnswers, risk_score, version, messages, inputText, isLoading,
                   awaitingConfirmation, pendingTransaction, selectedChatImage,
                   chatImagePreview, riskAssessment, envVars, event, viz, svc, feeds>>

CallFromQuiz ==
    /\ profileOut' = [fn |-> "generateRiskProfileFromQuiz",
                      profile |-> generateRiskProfileFromQuiz(quizAnswers)]
    /\ showStrategy' = TRUE
    /\ UNCHANGED <<quizAnswers, risk_score, version, messages, inputText, isLoading,
                   awaitingConfirmation, pendingTransaction, selectedChatImage,
                   chatImagePreview, riskAssessment, envVars, event, viz, svc, feeds>>

CallOldProfile ==
    /\ \E analysis \in {NoText, <<"60% equities">>} :
          profileOut' = [fn |-> "generateRiskProfile",
                         profile |-> generateRiskProfile(quizAnswers, analysis)]
    /\ UNCHANGED <<quizAnswers, risk_score, chatVars, svc, feeds>>

NextRisk == CallFromScore \/ CallFromQuiz \/ CallOldProfile

SpecRisk == InitRisk /\ [][NextRisk]_vars

\* C1. Risk tier selection: every answered question adds the 1-based rank of
\* the chosen option among the question's options, and the returned profile is
\* the conservative one iff the score is <= 4, the moderate one iff it is
\* 5..7, the aggressive one iff it is >= 8; generateRiskProfileFromScore
\* applies the same thresholds to the backend's risk_score, and the older
\* generateRiskProfile the same sum and thresholds.
RankOf(q, answer) ==
    IF answer = NoText THEN 0
    ELSE CHOOSE k \in 1..3 : RISK_QUESTIONS[QuestionOf(q)].options[k] = answer

RankSum(answers) ==
    RankOf("experience", answers.experience) + RankOf("timeline", answers.timeline)
        + RankOf("risk_tolerance", answers.risk_tolerance)

TierOfProfile(profile) ==
    {t \in StrategyTypes : Includes(profile, <<STRATEGY_TEMPLATES[t].title>>)}

TierByClaim(score) ==
    {t \in StrategyTypes :
        \/ t = "conservative" /\ score <= 4
        \/ t = "moderate" /\ 5 <= score /\ score <= 7
        \/ t = "aggressive" /\ score >= 8}

\* C1: the profile each of the three functions returns is the one the
\* thresholds <= 4, 5..7, >= 8 give for the rank sum (for the risk_score).
RiskTierByThresholds ==
    /\ profileOut.fn = "generateRiskProfileFromQuiz" =>
          TierOfProfile(profileOut.profile) = TierByClaim(RankSum(quizAnswers))
    /\ profileOut.fn = "generateRiskProfile" =>
          TierOfProfile(profileOut.profile) = TierByClaim(RankSum(quizAnswers))
    /\ profileOut.fn = "generateRiskProfileFromScore" =>
          TierOfProfile(profileOut.profile) = TierByClaim(risk_score)

RiskTierWitness ==
    /\ profileOut.fn = "generateRiskProfileFromQuiz"
    /\ RankSum(quizAnswers) = 5
    /\ \A q \in QuestionIds : quizAnswers[q] # NoText
    /\ TierOfProfile(profileOut.profile) = {"moderate"}

\* ------------------------------------------------------------------ C2
\* C2: in the current ChatInterface, while a chat request, a wallet
\* sendTransaction or a portfolio analysis request is unsettled, isLoading
\* is true.
LoadingWhileInFlight ==
    version = "current" => ((submits # {} \/ analyses # {}) => isLoading)

\* ------------------------------------------------- C4, C5, C10: the reply
\* What a step appended to the chat history
Appended == SubSeq(messages', Len(messages) + 1, Len(messages'))

AppendedOnly == Len(messages') >= Len(messages) /\ SubSeq(messages', 1, Len(messages)) = messages

\* The step appended exactly one bot message, and `accepts` holds of its text
OneBotMessage(accepts(_)) ==
    /\ AppendedOnly
    /\ Len(Appended) = 1
    /\ Appended[1].type = "bot"
    /\ accepts(Appended[1].text)

\* The suspended handleSubmit named by the step's event ran to its end
SubmitEnded == ~isLoading' /\ \A s \in submits' : s.id # event'.id

PostFailed == event'.op = "reply" /\ ~event'.outcome.ok

IsErrorText(text) ==
    text = <<"Sorry, there was an error processing your request. Please try again.">>

\* C4: when the chat POST fails (the fetch rejects, the response is not OK),
\* the send function returns the fixed apology instead of throwing:
\* handleSubmit appends exactly one bot message with that text and runs to its
\* end, and no sendTransaction is called for that submit.
PostFailureAnswered ==
    [][PostFailed => /\ OneBotMessage(IsErrorText)
                     /\ SubmitEnded
                     /\ walletCalls' = walletCalls]_vars

PostFailureWitness ==
    /\ event.op = "reply"
    /\ event.outcome.how = "not ok"
    /\ event.wallet
    /\ messages[Len(messages)].type = "bot"
    /\ IsErrorText(messages[Len(messages)].text)
    /\ walletCalls = 0

\* The reply carries a transaction, a wallet client exists, and parsing or
\* converting the transaction data throws
TxFormatFailed ==
    /\ event'.op = "reply"
    /\ version # "basic"
    /\ event'.outcome.ok
    /\ event'.wallet
    /\ \/ event'.outcome.transaction.type = "string"
          /\ event'.outcome.transaction.json = "{not json"
       \/ event'.outcome.transaction.type = "object"
          /\ event'.outcome.transaction.fields.value = "undefined"

SendTransactionFailed == event'.op = "walletSettled" /\ ~event'.outcome.ok

\* C5: a failure while parsing or converting the transaction data, or inside
\* walletClient.sendTransaction, is caught locally: the chat receives exactly
\* one bot message, the backend's text followed by "Error:" and a reason,
\* and handleSubmit runs to its end.
TxFailureCaught ==
    [][/\ TxFormatFailed =>
            /\ OneBotMessage(LAMBDA text :
                   /\ StartsWith(text, event'.outcome.response \o <<"Error:">>)
                   /\ Len(text) = Len(event'.outcome.response) + 2)
            /\ SubmitEnded
       /\ SendTransactionFailed =>
            /\ OneBotMessage(LAMBDA text :
                   /\ StartsWith(text, event'.response \o <<"Error:">>)
                   /\ Len(text) = Len(event'.response) + 2)
            /\ SubmitEnded]_vars

TxFailureWitness ==
    /\ event.op = "walletSettled"
    /\ event.outcome.message = "User rejected the request."
    /\ messages[Len(messages)].text
          = event.response \o <<"Error:", "User rejected the request.">>

\* C10: sendTransaction is called in reply steps only, at most once per
\* reply, and only when the reply carries a transaction and the send function
\* has a wallet client; when either is missing nothing is signed and the
\* reply's text is the bot message as it came.
SignedOnlyOnRequest ==
    [][/\ event'.op # "reply" => walletCalls' = walletCalls
       /\ event'.op = "reply" =>
            /\ walletCalls' \in {walletCalls, walletCalls + 1}
            /\ walletCalls' # walletCalls =>
                  /\ event'.outcome.ok
                  /\ event'.outcome.transaction.type # "undefined"
                  /\ event'.wallet
            /\ (event'.outcome.ok /\ (event'.outcome.transaction.type = "undefined"
                                        \/ ~event'.wallet)) =>
                  /\ walletCalls' = walletCalls
                  /\ OneBotMessage(LAMBDA text : text = event'.outcome.response)]_vars

SignedWitness ==
    /\ event.op = "reply"
    /\ event.outcome.transaction.type = "string"
    /\ walletCalls = 1
    /\ \E s \in submits : s.id = event.id /\ s.pc = "wallet"

\* ------------------------------------------------------- C6: file checks
\* Larger than 4 MB, or a MIME type that does not start with "image/"
TooLarge(file) == file.size > 4 * 1024 * 1024

NotAnImage(file) == Len(file.type) = 0 \/ file.type[1] # "image/"

PortfolioFileChosen == event'.op = "portfolioFile" /\ event'.file # NoFile

ChatFileChosen == event'.op = "chatFile" /\ event'.file # NoFile

\* C6: a file over 4 MB or of a non-image type is rejected. A portfolio
\* upload appends exactly one bot message naming the reason (the size first)
\* and starts no read and no request, and leaves isLoading and riskAssessment
\* alone; a chat attachment leaves selectedChatImage and chatImagePreview
\* alone. Any other file, one of exactly 4 MB with an image type included, is
\* accepted: its read starts.
BadFileRejected ==
    [][/\ PortfolioFileChosen =>
            IF TooLarge(event'.file) \/ NotAnImage(event'.file)
            THEN /\ OneBotMessage(LAMBDA text :
                        text = IF TooLarge(event'.file) THEN TooLargeText
                               ELSE InvalidImageText)
                 /\ UNCHANGED <<readers, submits, analyses, isLoading, riskAssessment>>
            ELSE /\ readers'.portfolio = readers.portfolio + 1
                 /\ UNCHANGED <<messages, isLoading, riskAssessment>>
       /\ ChatFileChosen =>
            IF TooLarge(event'.file) \/ NotAnImage(event'.file)
            THEN UNCHANGED <<selectedChatImage, chatImagePreview, readers, messages>>
            ELSE /\ selectedChatImage' = event'.file
                 /\ readers'.chat = readers.chat \cup {event'.file}]_vars

BadFileWitness ==
    /\ event.op = "portfolioFile"
    /\ TooLarge(event.file) /\ NotAnImage(event.file)
    /\ messages[Len(messages)].text = TooLargeText
    /\ readers.portfolio = 0

\* ------------------------------------------------ C9: onExecuteCommand
\* C9: executing a strategy step only pre-fills the chat input. The step
\* sets inputText to the command of the step at currentStep, {amount} replaced
\* by the step's share, and leaves the history, the requests in flight, the
\* wallet calls, isLoading and the rest of the chat's state as they were.
ExecuteStepOnlyPrefills ==
    [][event'.op = "executeStep" =>
          /\ inputText' = event'.command
          /\ LET step == DEFAULT_STRATEGY(viz.version)[viz.currentStep + 1] IN
             event'.command = Replace(step.command, "{amount}",
                                      calculateStepAmount(viz.version, viz.amount, step.percentage))
          /\ UNCHANGED <<messages, isLoading, submits, analyses, readers, walletCalls,
                         walletClient, awaitingConfirmation, pendingTransaction,
                         selectedChatImage, chatImagePreview, riskAssessment,
                         showStrategy, typingTimers>>]_vars

ExecuteStepWitness ==
    /\ event.op = "executeStep"
    /\ inputText = <<"swap", "20.00", "FLR", "to", "FLX">>
    /\ ~isLoading
    /\ submits = {}

\* ------------------------------------------------------- C3: liveness
\* Every fetch, FileReader and wallet call settles, and every timer fires.
Settles ==
    \/ \E s \in submits, o \in PostOutcomes : PostSettle(s, o)
    \/ \E s \in submits, w \in WalletOutcomes : WalletSettle(s, w)
    \/ \E ok \in BOOLEAN : PortfolioReaderEnds(ok)
    \/ \E a \in analyses, o \in AnalysisOutcomes : AnalysisSettle(a, o)
    \/ \E a \in analyses, o \in AnalysisOutcomes : AnalysisSettleOlder(a, o)

Fairness ==
    /\ WF_vars(Quiet /\ Settles)
    /\ WF_vars(TypingTimerFires)
    /\ WF_vars(WelcomeTimerFires)

SpecFair == Init /\ [][Next]_vars /\ Fairness

\* C3: whenever isLoading is true (after a chat submit, after a portfolio
\* read), it becomes false again, whatever the outcome of the calls.
LoadingEnds == isLoading ~> ~isLoading

LoadingEndsWitness ==
    /\ ~isLoading
    /\ event.op = "walletSettled"
    /\ ~event.outcome.ok
    /\ submits = {} /\ analyses = {} /\ readers.portfolio = 0

\* -------------------------------------------------------- StrategyService
\* The step types a caller may pass; "mint" is none of the switch's cases
StepTypes == {"hold", "stake", "lp", "swap", "mint"}

StepAmounts == {40, 20}

\* The three helpers: the route each posts to, the error it throws on a
\* response that is not OK, the label its catch logs under
Helpers ==
    [stake |-> [url |-> "/api/stake", failed |-> "Failed to execute stake transaction",
                label |-> "Stake error:"],
     lp |-> [url |-> "/api/add-liquidity", failed |-> "Failed to execute LP transaction",
             label |-> "LP error:"],
     swap |-> [url |-> "/api/swap", failed |-> "Failed to execute swap transaction",
               label |-> "Swap error:"]]

\* How the helper's fetch ends
FetchOutcomes ==
    { [how |-> "ok", error |-> ""],
      [how |-> "not ok", error |-> ""],
      [how |-> "rejected", error |-> "Failed to fetch"],
      [how |-> "bad json", error |-> "Unexpected end of JSON input"] }

\* A catch that logs and returns false
executeStrategyStepSwallows(error, log) ==
    [result |-> "false", error |-> error,
     log |-> Append(log, <<"Error executing strategy step:", error>>)]

\* The catch of executeStrategyStep: console.error, then `throw error`
executeStrategyStepCatch(error, log) ==
    [result |-> "thrown", error |-> error,
     log |-> Append(log, <<"Error executing strategy step:", error>>)]

\* The catch of a helper: console.error under its label, then `throw error`
helperCatch(step, error, log) ==
    executeStrategyStepCatch(error, Append(log, <<Helpers[step].label, error>>))

\* executeStrategyStep up to the helper's fetch (or to its end)
executeStrategyStep(step, amount) ==
    /\ svc.pc # "fetch"
    /\ svc.calls < MaxServiceCalls
    /\ svc' =
         LET call == [svc EXCEPT !.calls = @ + 1, !.step = step, !.amount = amount,
                                 !.url = "", !.error = ""] IN
         CASE step = "hold" -> [call EXCEPT !.pc = "done", !.result = "true"]
           [] step \in DOMAIN Helpers ->
                [call EXCEPT !.pc = "fetch", !.url = Helpers[step].url, !.result = "none"]
           [] OTHER ->
                LET caught == executeStrategyStepCatch("Unknown strategy step type", svc.log)
                IN [call EXCEPT !.pc = "done", !.result = caught.result,
                                !.error = caught.error, !.log = caught.log]
    /\ UNCHANGED <<riskVars, chatVars, feeds>>

\* The helper's fetch settles: the helper and executeStrategyStep run to their ends
helperFetchSettles(o) ==
    /\ svc.pc = "fetch"
    /\ svc' =
         IF o.how = "ok"
         THEN [svc EXCEPT !.pc = "done", !.result = "true"]
         ELSE LET error == IF o.how = "not ok" THEN Helpers[svc.step].failed ELSE o.error
                  caught == helperCatch(svc.step, error, svc.log)
              IN [svc EXCEPT !.pc = "done", !.result = caught.result,
                             !.error = caught.error, !.log = caught.log]
    /\ UNCHANGED <<riskVars, chatVars, feeds>>

InitService ==
    /\ InitChat("current", NoBudget, FALSE)
    /\ viz = IdleViz
    /\ quizAnswers = NoAnswers
    /\ risk_score = 0
    /\ profileOut = [fn |-> "none", profile |-> NoText]
    /\ svc = IdleSvc
    /\ feeds = IdleFeeds

NextService ==
    \/ \E step \in StepTypes, amount \in StepAmounts : executeStrategyStep(step, amount)
    \/ \E o \in FetchOutcomes : helperFetchSettles(o)

SpecService == InitService /\ [][NextService]_vars

\* ------------------------------------------------------------------ C7
\* C7 as stated: the caller of executeStrategyStep gets a value back, never
\* an exception.
ServiceReturnsValue == svc.pc = "done" => svc.result # "thrown"

\* C7: executeStrategyStep and its helpers report a failure and pass it on.
\* A call ends with true exactly when nothing failed; a rejected or non-OK
\* fetch, a body that is no JSON and an unknown step type end it with the
\* error thrown to the caller, logged once by each catch it crossed.
ServiceLogsAndRethrows ==
    svc.pc = "done" =>
        /\ svc.result \in {"true", "thrown"}
        /\ svc.result = "true" <=> svc.error = ""
        /\ svc.result = "thrown" =>
              /\ svc.error # ""
              /\ svc.log[Len(svc.log)] = <<"Error executing strategy step:", svc.error>>
              /\ svc.step \in DOMAIN Helpers =>
                    /\ Len(svc.log) >= 2
                    /\ svc.log[Len(svc.log) - 1] = <<Helpers[svc.step].label, svc.error>>
        /\ svc.step = "mint" => svc.result = "thrown"
        /\ svc.step = "hold" => svc.result = "true"

ServiceRethrowsWitness ==
    /\ svc.pc = "done"
    /\ svc.step = "swap"
    /\ svc.result = "thrown"
    /\ svc.error = "Failed to execute swap transaction"
    /\ svc.calls = 2

\* ------------------------------------------------------------------ C8
\* The sendTransaction calls that have not settled
Signing == {s \in submits : s.pc = "wallet"}

\* C8: in a flow of several transactions the next transaction is presented
\* for signing only after the submission of the previous one has been
\* awaited: at most one sendTransaction call is unsettled at any time.
OneSigningAtATime == Cardinality(Signing) <= 1

\* ------------------------------------------------------------------ C11
\* C11: in the two versions with a risk assessment, handleSubmit sends a
\* user message to the backend only when riskAssessment.isComplete is true,
\* isComplete is set only by a quiz answer, a portfolio analysis or Skip
\* Assessment, and once set it is never false again.
SubmitOnlyWhenComplete ==
    [][version # "basic" =>
          /\ (event'.op = "submit" /\ event'.accepted) => riskAssessment.isComplete
          /\ submits' # submits => riskAssessment'.isComplete
          /\ riskAssessment.isComplete => riskAssessment'.isComplete
          /\ (~riskAssessment.isComplete /\ riskAssessment'.isComplete) =>
                event'.op \in {"answer", "analysis", "skip"}]_vars

SubmitWhenCompleteWitness ==
    /\ version = "current"
    /\ event.op = "submit"
    /\ event.accepted
    /\ riskAssessment.isComplete
    /\ \E s \in submits : s.pc = "fetch" /\ s.text = <<"hi">>

\* ------------------------------------------------------------------ C12
\* The reply of the step carries the marker 'Transaction Preview:'
ReplyHasPreview ==
    /\ event'.outcome.ok
    /\ \E i \in 1..Len(event'.outcome.response) :
          event'.outcome.response[i] = "Transaction Preview:"

\* C12: in the basic ChatInterface a reply that contains 'Transaction
\* Preview:' sets awaitingConfirmation and stores in pendingTransaction the
\* text that was sent to the backend; a reply without the marker and a failed
\* request leave both as they were.
PreviewArmsConfirmation ==
    [][(version = "basic" /\ event'.op = "reply") =>
          IF ReplyHasPreview
          THEN awaitingConfirmation' /\ pendingTransaction' = event'.text
          ELSE UNCHANGED <<awaitingConfirmation, pendingTransaction>>]_vars

PreviewArmsWitness ==
    /\ version = "basic"
    /\ event.op = "reply"
    /\ event.outcome.ok
    /\ event.outcome.response = PreviewText
    /\ awaitingConfirmation
    /\ pendingTransaction = <<"hi">>
    /\ event.text = <<"hi">>

\* ------------------------------------------------------------------ C13
\* The words of a typed text, its whitespace dropped
WordsOf(text) == SelectSeq(text, LAMBDA tok : tok # " ")

\* The typed text is the one word CONFIRM, in any case
SaysConfirm(text) == WordsOf(text) \in {<<"confirm">>, <<"Confirm">>, <<"CONFIRM">>}

SubmitWhileAwaiting == version = "basic" /\ awaitingConfirmation /\ event'.op = "submit"

\* C13 as stated: while awaitingConfirmation is true every input other than
\* CONFIRM cancels: awaitingConfirmation becomes false and pendingTransaction
\* null.
OtherInputCancels ==
    [][(SubmitWhileAwaiting /\ ~SaysConfirm(inputText)) =>
          ~awaitingConfirmation' /\ pendingTransaction' = NoText]_vars

\* C13: while awaitingConfirmation is true (basic ChatInterface) a submit of
\* CONFIRM, in any case and trimmed, sends the stored pendingTransaction to
\* the backend, not the word typed; a submit of any other text that is not
\* blank sends nothing, sets awaitingConfirmation to false and
\* pendingTransaction to null and appends the bot message 'Transaction
\* cancelled. How else can I help you?'; a blank submit is ignored and the
\* confirmation stays pending.
ConfirmOrCancel ==
    [][SubmitWhileAwaiting =>
          IF WordsOf(inputText) = <<>>
          THEN /\ ~event'.accepted
               /\ UNCHANGED <<stateVars, submits>>
          ELSE IF SaysConfirm(inputText)
          THEN /\ event'.accepted
               /\ \E s \in submits' :
                     /\ submits' = submits \cup {s}
                     /\ s \notin submits
                     /\ s.text = pendingTransaction
                     /\ s.pc = "fetch"
               /\ ~awaitingConfirmation'
               /\ pendingTransaction' = pendingTransaction
               /\ isLoading'
          ELSE /\ event'.accepted
               /\ submits' = submits
               /\ ~awaitingConfirmation'
               /\ pendingTransaction' = NoText
               /\ AppendedOnly
               /\ Len(Appended) = 2
               /\ Appended[1].type = "user"
               /\ Appended[2].type = "bot"
               /\ Appended[2].text = <<"Transaction cancelled. How else can I help you?">>
               /\ ~isLoading']_vars

ConfirmWitness ==
    /\ version = "basic"
    /\ event.op = "submit"
    /\ event.accepted
    /\ messages[Len(messages)].text = <<"confirm">>
    /\ ~awaitingConfirmation
    /\ pendingTransaction = <<"hi">>
    /\ \E s \in submits : s.text = <<"hi">> /\ s.pc = "fetch"

\* ------------------------------------------------------------------ C14
\* C14: in the basic ChatInterface awaitingConfirmation implies a stored
\* pendingTransaction in every state, also during and after a CONFIRM round
\* trip; and when a reply leaves awaitingConfirmation true after a submit that
\* had set it false, that reply itself contained 'Transaction Preview:'.
AwaitingHasPending ==
    /\ [](version = "basic" => (awaitingConfirmation => pendingTransaction # NoText))
    /\ [][(version = "basic" /\ event'.op = "reply" /\ ~awaitingConfirmation
             /\ awaitingConfirmation') => ReplyHasPreview]_vars
    /\ [][(version = "basic" /\ event'.op = "submit" /\ event'.accepted) =>
             ~awaitingConfirmation']_vars

AwaitingAgainWitness ==
    /\ version = "basic"
    /\ event.op = "reply"
    /\ event.outcome.response = PreviewText
    /\ awaitingConfirmation
    /\ pendingTransaction = <<"hi">>
    /\ \E i \in 1..Len(messages) : messages[i].type = "user" /\ messages[i].text = <<"confirm">>

\* ------------------------------------------------------------------ C15
\* C15: in the two wallet-connected versions awaitingConfirmation is false
\* and pendingTransaction is null in every state, and a submit of CONFIRM
\* is sent to the backend as typed (trimmed), like any other message.
NeverAwaitsWithWallet ==
    /\ [](version # "basic" => (~awaitingConfirmation /\ pendingTransaction = NoText))
    /\ [][(version # "basic" /\ event'.op = "submit" /\ event'.accepted) =>
             \E s \in submits' :
                /\ s \notin submits
                /\ submits' = submits \cup {s}
                /\ s.text = WordsOf(inputText)
                /\ s.pc = "fetch"]_vars

ConfirmForwardedWitness ==
    /\ version = "older"
    /\ event.op = "submit"
    /\ event.accepted
    /\ ~awaitingConfirmation
    /\ pendingTransaction = NoText
    /\ \E s \in submits : s.text = <<"confirm">> /\ s.pc = "fetch"

\* ------------------------------------------------------------------ C16
\* The chat POSTs that have not settled
Posting == {s \in submits : s.pc = "fetch"}

\* C16: handleSubmit ignores a submit while isLoading is true, and so at
\* most one chat request is in flight at any time.
OneChatRequestInFlight == Cardinality(Posting) <= 1

\* ------------------------------------------------------------------ C17
\* The question the quiz is at
CurrentQ == RISK_QUESTIONS[riskAssessment.currentQuestion + 1]

\* C17: currentQuestion is always one of 0..2; an answer is stored under the
\* id of the question at currentQuestion and moves currentQuestion on by
\* one, except the answer to the last question, which sets isComplete and
\* leaves currentQuestion at 2; when the quiz completes the assessment, all
\* three questions have an answer and the score is between 3 and 9.
QuizProgression ==
    /\ [](version # "basic" => riskAssessment.currentQuestion \in 0..(Len(RISK_QUESTIONS) - 1))
    /\ [][(version # "basic" /\ event'.op = "answer") =>
             /\ riskAssessment'.answers =
                   [riskAssessment.answers EXCEPT ![CurrentQ.id] = event'.answer]
             /\ event'.answer \in OptionsOf(CurrentQ.id)
             /\ IF riskAssessment.currentQuestion = 2
                THEN /\ riskAssessment'.isComplete
                     /\ riskAssessment'.currentQuestion = 2
                     /\ \A q \in QuestionIds : riskAssessment'.answers[q] # NoText
                     /\ quizRiskScore(riskAssessment'.answers) \in 3..9
                ELSE /\ riskAssessment'.currentQuestion = riskAssessment.currentQuestion + 1
                     /\ ~riskAssessment'.isComplete]_vars

QuizCompleteWitness ==
    /\ version = "current"
    /\ event.op = "answer"
    /\ riskAssessment.isComplete
    /\ riskAssessment.currentQuestion = 2
    /\ quizRiskScore(riskAssessment.answers) = 3

RiskProfiles == {formatRiskProfile(t) : t \in StrategyTypes}

\* C19: the strategy visualizer is rendered only when the assessment is
\* complete and a risk profile was generated, by the last quiz answer or by
\* a portfolio analysis that succeeded; Skip Assessment does not show it;
\* showStrategy never goes back to false.
VisualizerOnlyWithProfile ==
    /\ [](VizMounted => (version = "current" /\ riskAssessment.isComplete))
    /\ [](showStrategy => (version = "current" /\ riskAssessment.isComplete))
    /\ [][showStrategy => showStrategy']_vars
    /\ [][event'.op = "skip" => (~showStrategy' /\ ~VizMounted' /\ riskAssessment'.isComplete)]_vars
    /\ [][(~showStrategy /\ showStrategy') =>
             /\ \/ event'.op = "answer" /\ riskAssessment.currentQuestion = Len(RISK_QUESTIONS) - 1
                \/ event'.op = "analysis" /\ event'.outcome.ok
             /\ \E i \in 1..Len(Appended) : Appended[i].text \in RiskProfiles
             /\ VizMounted']_vars

VisualizerShownWitness ==
    /\ VizMounted
    /\ event.op = "analysis"
    /\ event.outcome.ok
    /\ messages[Len(messages)].text = formatRiskProfile("moderate")

\* Skip Assessment alone: complete, and no visualizer
SkippedWitnessState ==
    /\ version = "current"
    /\ event.op = "skip"
    /\ riskAssessment.isComplete
    /\ ~VizMounted

\* ------------------------------------------------------------------ C20
\* C20: a bot message added through addMessage does not keep isTyping true
\* for ever: once every timer addMessage has set has fired (and the welcome
\* effect's), no message of the history is still shown as typing.
TypingEnds ==
    (typingTimers = 0 /\ ~welcomeTimer) =>
        \A i \in 1..Len(messages) : ~messages[i].isTyping

\* ------------------------------------------------------------------ C21
\* A message without its typing flag
Shown(m) == [text |-> m.text, type |-> m.type, imageData |-> m.imageData]

\* C21: the chat history is append-only: at every step the messages before
\* the step are a prefix of the messages after it, their isTyping flags
\* apart.
HistoryAppendOnly ==
    [][/\ Len(messages') >= Len(messages)
       /\ \A i \in 1..Len(messages) : Shown(messages'[i]) = Shown(messages[i])]_vars

\* ------------------------------------------------------------------ C22
\* The command of step k (counted from 0) for the amount entered
CommandOf(k) ==
    LET step == DEFAULT_STRATEGY(viz.version)[k + 1]
    IN  Replace(step.command, "{amount}",
                calculateStepAmount(viz.version, viz.amount, step.percentage))

AmountIsNumber == viz.amount # "" /\ parseFloat(viz.amount) # NaN

\* The steps whose command has been emitted
StepsEmitted ==
    IF viz.currentStep < 0 THEN 0
    ELSE viz.currentStep + (IF viz.executing THEN 1 ELSE 0)

\* C22: currentStep starts at -1 and becomes 0 only through Start Execution
\* with an amount that is a number; Execute Step, which is not taken while a
\* step is executing, emits the command of the step at currentStep and moves
\* currentStep on by exactly one; the commands are emitted in the order of
\* the list, each once; currentStep stays between -1 and the number of
\* steps, and completion is shown exactly when it is the number of steps.
StepCounter ==
    /\ [](viz.currentStep \in -1..Len(DEFAULT_STRATEGY(viz.version)))
    /\ [](VizIsComplete <=> viz.currentStep = Len(DEFAULT_STRATEGY(viz.version)))
    /\ [](viz.emitted = [k \in 1..StepsEmitted |-> CommandOf(k - 1)])
    /\ [][event'.op = "amountSubmit" =>
             viz'.currentStep = (IF AmountIsNumber THEN 0 ELSE -1)]_vars
    /\ [][event'.op = "executeStep" =>
             /\ ~viz.executing
             /\ viz.currentStep \in 0..(Len(DEFAULT_STRATEGY(viz.version)) - 1)
             /\ viz'.emitted = Append(viz.emitted, CommandOf(viz.currentStep))
             /\ IF viz.version = 1
                THEN viz'.executing /\ viz'.currentStep = viz.currentStep
                ELSE viz'.currentStep = viz.currentStep + 1]_vars
    /\ [][viz'.currentStep # viz.currentStep =>
             \/ /\ viz.currentStep = -1
                /\ viz'.currentStep = 0
                /\ event'.op = "amountSubmit"
                /\ AmountIsNumber
             \/ /\ viz.currentStep >= 0
                /\ viz'.currentStep = viz.currentStep + 1
                /\ event'.op = (IF viz.version = 1 THEN "stepTimer" ELSE "executeStep")
                /\ Len(viz'.emitted) = viz'.currentStep]_vars

StepCounterWitness ==
    /\ viz.version = 1
    /\ event.op = "stepTimer"
    /\ VizIsComplete
    /\ viz.currentStep = 3
    /\ viz.emitted = << <<"stake", "1.00", "FLR">>,
                        <<"add_liquidity", "1.00", "FLR-USDC.e">>,
                        <<"swap", "0.50", "FLR", "FLX">> >>

\* ------------------------------------------------------------ PriceFeeds
\* FTSO_ADDRESSES, in the order of its keys
FTSO_ADDRESSES ==
    << [symbol |-> "ETH",  address |-> "0x1F31ba729A6A544DeEa2d405D98B066e3efE53FD"],
       [symbol |-> "FLR",  address |-> "0x799efB666d14739F3A6aF0b702405A94bb7F96F7"],
       [symbol |-> "USDT", address |-> "0xbeCbA3ae453278574304DCb405a7f54a6155E0C4"] >>

\* Object.entries(FTSO_ADDRESSES).map(...): one getCurrentPrice call per entry
contracts == [i \in 1..Len(FTSO_ADDRESSES) |-> FTSO_ADDRESSES[i].address]

\* Keys read in another order than the contracts
symbolsShifted ==
    [i \in 1..Len(FTSO_ADDRESSES) |-> FTSO_ADDRESSES[(i % Len(FTSO_ADDRESSES)) + 1].symbol]

\* Object.keys(FTSO_ADDRESSES)
symbols == [i \in 1..Len(FTSO_ADDRESSES) |-> FTSO_ADDRESSES[i].symbol]

\* What getCurrentPrice returns: _price (5 decimals) and _timestamp
FeedPrices == {0, 123456}
FeedTimes == {1, 2}

\* One entry of useContractReads' data: a failed call, a call that succeeded
\* with no result, or a call that succeeded with [price, timestamp]
FeedResults ==
    {[status |-> "failure", has |-> FALSE, price |-> 0, timestamp |-> 0],
     [status |-> "success", has |-> FALSE, price |-> 0, timestamp |-> 0]}
    \cup [status : {"success"}, has : {TRUE}, price : FeedPrices, timestamp : FeedTimes]

\* data has one entry per contract, in the order of the contracts
FeedData == [1..Len(contracts) -> FeedResults]

\* (Number(price) / 100000).toFixed(5)
priceFormatted(price) ==
    LET frac == price % 100000
        digits == ToString(frac)
        zeros == [n \in 0..5 |-> CASE n = 0 -> "" [] n = 1 -> "0" [] n = 2 -> "00"
                                   [] n = 3 -> "000" [] n = 4 -> "0000" [] OTHER -> "00000"]
        width == IF frac < 10 THEN 1 ELSE IF frac < 100 THEN 2 ELSE IF frac < 1000 THEN 3
                 ELSE IF frac < 10000 THEN 4 ELSE 5
    IN  ToString(price \div 100000) \o "." \o zeros[5 - width] \o digits

\* The indexes whose result the effect's forEach takes
Taken(data) == {i \in 1..Len(data) : data[i].status = "success" /\ data[i].has}

\* newPrices after data.forEach: the last taken index of a symbol wins
newPrices(data) ==
    [k \in {symbols[i] : i \in Taken(data)} |->
        LET i == CHOOSE j \in Taken(data) :
                    /\ symbols[j] = k
                    /\ \A m \in Taken(data) : symbols[m] = k => m <= j
        IN  [price |-> priceFormatted(data[i].price), timestamp |-> data[i].timestamp]]

\* { ...prev, ...newPrices }
Spread(prev, new) ==
    [k \in (DOMAIN prev) \cup (DOMAIN new) |-> IF k \in DOMAIN new THEN new[k] ELSE prev[k]]

\* useContractReads hands over new data (first fetch or refetch); the
\* effect on [data] runs
DataChanges(d) ==
    /\ d \in FeedData
    /\ d # feeds.data
    /\ feeds' = [feeds EXCEPT !.data = d,
                              !.prices = Spread(feeds.prices, newPrices(d))]
    /\ UNCHANGED <<riskVars, chatVars, svc>>

\* The one-second interval: setCurrentTime
ClockTick ==
    /\ feeds.currentTime < MaxClock
    /\ feeds' = [feeds EXCEPT !.currentTime = @ + 1]
    /\ UNCHANGED <<riskVars, chatVars, svc>>

InitFeeds ==
    /\ InitChat("current", NoBudget, FALSE)
    /\ viz = IdleViz
    /\ quizAnswers = NoAnswers
    /\ risk_score = 0
    /\ profileOut = [fn |-> "none", profile |-> NoText]
    /\ svc = IdleSvc
    /\ feeds = IdleFeeds

NextFeeds ==
    \/ \E d \in FeedData : DataChanges(d)
    \/ ClockTick

SpecFeeds == InitFeeds /\ [][NextFeeds]_vars

\* ------------------------------------------------------------------ C23
\* The symbol whose contract is read at each index of data
FeedOrder == <<"ETH", "FLR", "USDT">>

\* C23: prices has an entry for exactly ETH, FLR and USDT in every state;
\* when new data arrives, a symbol whose result failed or is empty keeps its
\* price and timestamp, and a symbol whose result succeeded gets the price
\* and the timestamp of the result at its own index.
PricesFrame ==
    /\ [](DOMAIN feeds.prices = {"ETH", "FLR", "USDT"})
    /\ [][feeds'.data # feeds.data =>
             /\ Len(feeds'.data) = Len(FeedOrder)
             /\ \A i \in 1..Len(FeedOrder) :
                   LET r == feeds'.data[i] IN
                   IF r.status = "success" /\ r.has
                   THEN feeds'.prices[FeedOrder[i]] =
                           [price |-> priceFormatted(r.price), timestamp |-> r.timestamp]
                   ELSE feeds'.prices[FeedOrder[i]] = feeds.prices[FeedOrder[i]]]_vars
    /\ [][feeds'.data = feeds.data => feeds'.prices = feeds.prices]_vars

PricesKeptWitness ==
    /\ feeds.data # NoData
    /\ feeds.data[1].status = "success" /\ feeds.data[1].has
    /\ feeds.data[1].price = 0 /\ feeds.data[1].timestamp = 2
    /\ feeds.prices.ETH = [price |-> "0.00000", timestamp |-> 2]
    /\ feeds.data[2].status = "failure"
    /\ feeds.prices.FLR = [price |-> "1.23456", timestamp |-> 1]
    /\ feeds.data[3].status = "success" /\ ~feeds.data[3].has
    /\ feeds.prices.USDT = [price |-> "0", timestamp |-> 0]

====
